---- MODULE Spec2Model ----
(***************************************************************************)
(* Model of vmware2kubevirt: the VMDK descriptor extractor                 *)
(* (ExtractVMDKDescriptor), the VMX parser (ParseVMX) and the KubeVirt VM  *)
(* builder (CreateKubeVirtVM).                                             *)
(*                                                                         *)
(* Strings and files are sequences of bytes (0..255), as Go's string and   *)
(* []byte are.  Fixed-width unsigned integers are little-endian sequences  *)
(* of 16-bit limbs (a uint32 is 2 limbs, a uint64 is 4), so that wrapping  *)
(* arithmetic at 2^32 and 2^64 is computed exactly.                        *)
(***************************************************************************)
EXTENDS Integers, Sequences, FiniteSets, TLC

VARIABLES
    pc,          \* position of the running call
    fileKind,    \* what the path given to ExtractVMDKDescriptor names
    stream,      \* content of the file given to ExtractVMDKDescriptor
    hole,        \* zero bytes that follow stream in the file (a sparse tail)
    window,      \* actualInitialBytes: the first n bytes read by the probe
    offSectors,  \* descriptorOffsetSectors (uint64 limbs)
    sizeSectors, \* descriptorSizeSectors (uint64 limbs)
    offBytes,    \* descriptorOffsetBytes (uint64 limbs)
    sizeBytes,   \* descriptorSizeInBytes (uint64 limbs)
    validated,   \* header fields that have passed a check so far
    reads,       \* reads issued on the file, in order
    allocs,      \* sizes of the buffers allocated, in order
    result,      \* (descriptor, isVMDK, err) once the call has returned
    vmxPath,     \* path given to ParseVMX
    fileOk,      \* whether os.ReadFile succeeds on vmxPath
    content,     \* content of the VMX file
    lines,       \* the lines ParseVMX iterates over
    lineIdx,     \* index of the next line of the loop
    config,      \* the VMXConfig under construction
    log,         \* diagnostics written with log.Printf, in order
    parsed,      \* (config, err) once ParseVMX has returned
    vm           \* (vm, err) once CreateKubeVirtVM has returned

evars == <<fileKind, stream, hole, window, offSectors, sizeSectors, offBytes, sizeBytes,
           validated, reads, allocs, result>>

cvars == <<vmxPath, fileOk, content, lines, lineIdx, config, log, parsed, vm>>

vars == <<pc, evars, cvars>>

----------------------------------------------------------------------------
(* Bounds of the model *)

\* streams hold up to MaxStreamSectors 512-byte sectors (plus a tail)
MaxStreamSectors == 3
\* header offsets and sizes that are drawn as small sector counts
MaxSectors == 2
\* VMX files hold up to MaxLines lines
MaxLines == 2
\* by how many bytes the long names exceed the resource name limit
LongNameExcess == 2

----------------------------------------------------------------------------
(* Program constants: src/pkg/vmx/vmx.go 83-103 *)

Limb == 256 * 256
\* 0x564d444b as a uint32: limbs 0x444b, 0x564d
vmdkMagicKDMV == <<17483, 22093>>
sectorSize == 512
descriptorOffsetInHeaderPos == 28
descriptorSizeInHeaderPos == 36
minHeaderSizeForDescFields == descriptorSizeInHeaderPos + 8
initialReadSize == 256
maxDescriptorSizeBytes == 16 * 1024 * 1024
\* "# Disk DescriptorFile"
vmdkDescriptorFileSignature ==
    <<35, 32, 68, 105, 115, 107, 32, 68, 101, 115, 99, 114, 105, 112, 116,
      111, 114, 70, 105, 108, 101>>

----------------------------------------------------------------------------
(* Fixed-width integers *)

\* binary.LittleEndian.Uint32 / Uint64 of a 4- or 8-byte slice
LittleEndianUint(b) ==
    [k \in 1..(Len(b) \div 2) |-> b[2 * k - 1] + 256 * b[2 * k]]

RECURSIVE MulCarry(_, _, _, _)
MulCarry(x, m, i, carry) ==
    IF i > Len(x) THEN <<>>
    ELSE LET t == x[i] * m + carry
         IN  <<t % Limb>> \o MulCarry(x, m, i + 1, t \div Limb)

\* x * m in the width of x: the carry out of the top limb is dropped
WrapMul(x, m) == MulCarry(x, m, 1, 0)

IsZero(x) == \A k \in 1..Len(x) : x[k] = 0

\* x > n for a limb value x and an integer 0 <= n < 2^31
GreaterThanInt(x, n) ==
    \/ \E k \in 3..Len(x) : x[k] # 0
    \/ x[2] > n \div Limb
    \/ x[2] = n \div Limb /\ x[1] > n % Limb

\* the integer a limb value holds, for values below 2^31
ToInt(x) == x[1] + Limb * x[2]

\* int64(x) < 0 for a uint64 x
NegativeAsInt64(x) == x[4] >= 32768

----------------------------------------------------------------------------
(* Strings: package strings, strconv and path/filepath on byte sequences *)

RECURSIVE Split(_, _)
\* strings.Split(s, sep) for a one-byte separator
Split(s, sep) ==
    IF \A i \in 1..Len(s) : s[i] # sep THEN <<s>>
    ELSE LET i == CHOOSE i \in 1..Len(s) :
                      s[i] = sep /\ \A j \in 1..(i - 1) : s[j] # sep
         IN  <<SubSeq(s, 1, i - 1)>> \o Split(SubSeq(s, i + 1, Len(s)), sep)

\* strings.SplitN(s, sep, 2) for a one-byte separator
SplitN2(s, sep) ==
    IF \A i \in 1..Len(s) : s[i] # sep THEN <<s>>
    ELSE LET i == CHOOSE i \in 1..Len(s) :
                      s[i] = sep /\ \A j \in 1..(i - 1) : s[j] # sep
         IN  <<SubSeq(s, 1, i - 1), SubSeq(s, i + 1, Len(s))>>

TrimLeft(s, cutset) ==
    IF \A i \in 1..Len(s) : s[i] \in cutset THEN <<>>
    ELSE LET i == CHOOSE i \in 1..Len(s) :
                      s[i] \notin cutset /\ \A j \in 1..(i - 1) : s[j] \in cutset
         IN  SubSeq(s, i, Len(s))

TrimRight(s, cutset) ==
    IF \A i \in 1..Len(s) : s[i] \in cutset THEN <<>>
    ELSE LET i == CHOOSE i \in 1..Len(s) :
                      s[i] \notin cutset /\ \A j \in (i + 1)..Len(s) : s[j] \in cutset
         IN  SubSeq(s, 1, i)

\* strings.Trim(s, cutset): every leading and trailing byte of the cutset
Trim(s, cutset) == TrimRight(TrimLeft(s, cutset), cutset)

\* utf8.RuneError, U+FFFD
RuneError == 65533

\* a UTF-8 continuation byte
Cont(b) == b >= 128 /\ b <= 191

\* utf8.DecodeRune on s from byte i on: the rune and its width in bytes.  A
\* byte that starts no well-formed encoding (an overlong form, a surrogate
\* and a value above U+10FFFF included) is RuneError of width 1.
DecodeRune(s, i) ==
    LET b == s[i]
        lo == IF b = 224 THEN 160 ELSE IF b = 240 THEN 144 ELSE 128
        hi == IF b = 237 THEN 159 ELSE IF b = 244 THEN 143 ELSE 191
        second == i + 1 <= Len(s) /\ s[i + 1] >= lo /\ s[i + 1] <= hi
    IN  IF b < 128 THEN [rune |-> b, width |-> 1]
        ELSE IF b >= 194 /\ b <= 223 /\ second
        THEN [rune |-> (b - 192) * 64 + (s[i + 1] - 128), width |-> 2]
        ELSE IF b >= 224 /\ b <= 239 /\ second /\ i + 2 <= Len(s) /\ Cont(s[i + 2])
        THEN [rune |-> (b - 224) * 4096 + (s[i + 1] - 128) * 64 + (s[i + 2] - 128),
              width |-> 3]
        ELSE IF b >= 240 /\ b <= 244 /\ second /\ i + 3 <= Len(s)
                /\ Cont(s[i + 2]) /\ Cont(s[i + 3])
        THEN [rune |-> (b - 240) * 262144 + (s[i + 1] - 128) * 4096
                          + (s[i + 2] - 128) * 64 + (s[i + 3] - 128),
              width |-> 4]
        ELSE [rune |-> RuneError, width |-> 1]

\* utf8.DecodeLastRune on the first e bytes of s: the encoding must start at
\* the nearest rune-start byte among the three before the last, and end at e
DecodeLastRune(s, e) ==
    LET starts == {j \in (IF e > 4 THEN e - 3 ELSE 1)..(e - 1) : ~Cont(s[j])}
    IN  IF s[e] < 128 THEN [rune |-> s[e], width |-> 1]
        ELSE IF starts = {} THEN [rune |-> RuneError, width |-> 1]
        ELSE LET j == CHOOSE j \in starts : \A k \in starts : k <= j
                 d == DecodeRune(SubSeq(s, 1, e), j)
             IN  IF j + d.width - 1 = e THEN d
                 ELSE [rune |-> RuneError, width |-> 1]

\* utf8.EncodeRune for a rune that is no surrogate
EncodeRune(r) ==
    IF r < 128 THEN <<r>>
    ELSE IF r < 2048 THEN <<192 + (r \div 64), 128 + (r % 64)>>
    ELSE IF r < 65536
    THEN <<224 + (r \div 4096), 128 + ((r \div 64) % 64), 128 + (r % 64)>>
    ELSE <<240 + (r \div 262144), 128 + ((r \div 4096) % 64),
           128 + ((r \div 64) % 64), 128 + (r % 64)>>

\* unicode.IsSpace: the runes with the White_Space property
IsSpace(r) ==
    r \in ({9, 10, 11, 12, 13, 32, 133, 160, 5760, 8232, 8233, 8239, 8287, 12288}
              \cup (8192..8202))

RECURSIVE TrimSpaceLeft(_)
TrimSpaceLeft(s) ==
    IF s = <<>> THEN s
    ELSE LET d == DecodeRune(s, 1)
         IN  IF IsSpace(d.rune) THEN TrimSpaceLeft(SubSeq(s, d.width + 1, Len(s)))
             ELSE s

RECURSIVE TrimSpaceRight(_)
TrimSpaceRight(s) ==
    IF s = <<>> THEN s
    ELSE LET d == DecodeLastRune(s, Len(s))
         IN  IF IsSpace(d.rune) THEN TrimSpaceRight(SubSeq(s, 1, Len(s) - d.width))
             ELSE s

\* strings.TrimSpace: every leading and trailing rune of Unicode white space
TrimSpace(s) == TrimSpaceRight(TrimSpaceLeft(s))

\* the simple lowercase mappings of the Unicode character database (Unicode
\* 14), which unicode.ToLower applies: each entry <<lo, hi, stride, delta>>
\* maps the runes lo, lo + stride, ... up to hi to themselves plus delta
LowerRanges ==
    << <<65, 90, 1, 32>>, <<192, 214, 1, 32>>, <<216, 222, 1, 32>>,
      <<256, 302, 2, 1>>, <<304, 304, 1, -199>>, <<306, 310, 2, 1>>,
      <<313, 327, 2, 1>>, <<330, 374, 2, 1>>, <<376, 376, 1, -121>>,
      <<377, 381, 2, 1>>, <<385, 385, 1, 210>>, <<386, 388, 2, 1>>,
      <<390, 390, 1, 206>>, <<391, 391, 1, 1>>, <<393, 394, 1, 205>>,
      <<395, 395, 1, 1>>, <<398, 398, 1, 79>>, <<399, 399, 1, 202>>,
      <<400, 400, 1, 203>>, <<401, 401, 1, 1>>, <<403, 403, 1, 205>>,
      <<404, 404, 1, 207>>, <<406, 406, 1, 211>>, <<407, 407, 1, 209>>,
      <<408, 408, 1, 1>>, <<412, 412, 1, 211>>, <<413, 413, 1, 213>>,
      <<415, 415, 1, 214>>, <<416, 420, 2, 1>>, <<422, 422, 1, 218>>,
      <<423, 423, 1, 1>>, <<425, 425, 1, 218>>, <<428, 428, 1, 1>>,
      <<430, 430, 1, 218>>, <<431, 431, 1, 1>>, <<433, 434, 1, 217>>,
      <<435, 437, 2, 1>>, <<439, 439, 1, 219>>, <<440, 440, 1, 1>>,
      <<444, 444, 1, 1>>, <<452, 452, 1, 2>>, <<453, 453, 1, 1>>,
      <<455, 455, 1, 2>>, <<456, 456, 1, 1>>, <<458, 458, 1, 2>>,
      <<459, 475, 2, 1>>, <<478, 494, 2, 1>>, <<497, 497, 1, 2>>,
      <<498, 500, 2, 1>>, <<502, 502, 1, -97>>, <<503, 503, 1, -56>>,
      <<504, 542, 2, 1>>, <<544, 544, 1, -130>>, <<546, 562, 2, 1>>,
      <<570, 570, 1, 10795>>, <<571, 571, 1, 1>>, <<573, 573, 1, -163>>,
      <<574, 574, 1, 10792>>, <<577, 577, 1, 1>>, <<579, 579, 1, -195>>,
      <<580, 580, 1, 69>>, <<581, 581, 1, 71>>, <<582, 590, 2, 1>>,
      <<880, 882, 2, 1>>, <<886, 886, 1, 1>>, <<895, 895, 1, 116>>,
      <<902, 902, 1, 38>>, <<904, 906, 1, 37>>, <<908, 908, 1, 64>>,
      <<910, 911, 1, 63>>, <<913, 929, 1, 32>>, <<931, 939, 1, 32>>,
      <<975, 975, 1, 8>>, <<984, 1006, 2, 1>>, <<1012, 1012, 1, -60>>,
      <<1015, 1015, 1, 1>>, <<1017, 1017, 1, -7>>, <<1018, 1018, 1, 1>>,
      <<1021, 1023, 1, -130>>, <<1024, 1039, 1, 80>>, <<1040, 1071, 1, 32>>,
      <<1120, 1152, 2, 1>>, <<1162, 1214, 2, 1>>, <<1216, 1216, 1, 15>>,
      <<1217, 1229, 2, 1>>, <<1232, 1326, 2, 1>>, <<1329, 1366, 1, 48>>,
      <<4256, 4293, 1, 7264>>, <<4295, 4295, 1, 7264>>,
      <<4301, 4301, 1, 7264>>, <<5024, 5103, 1, 38864>>, <<5104, 5109, 1, 8>>,
      <<7312, 7354, 1, -3008>>, <<7357, 7359, 1, -3008>>,
      <<7680, 7828, 2, 1>>, <<7838, 7838, 1, -7615>>, <<7840, 7934, 2, 1>>,
      <<7944, 7951, 1, -8>>, <<7960, 7965, 1, -8>>, <<7976, 7983, 1, -8>>,
      <<7992, 7999, 1, -8>>, <<8008, 8013, 1, -8>>, <<8025, 8031, 2, -8>>,
      <<8040, 8047, 1, -8>>, <<8072, 8079, 1, -8>>, <<8088, 8095, 1, -8>>,
      <<8104, 8111, 1, -8>>, <<8120, 8121, 1, -8>>, <<8122, 8123, 1, -74>>,
      <<8124, 8124, 1, -9>>, <<8136, 8139, 1, -86>>, <<8140, 8140, 1, -9>>,
      <<8152, 8153, 1, -8>>, <<8154, 8155, 1, -100>>, <<8168, 8169, 1, -8>>,
      <<8170, 8171, 1, -112>>, <<8172, 8172, 1, -7>>, <<8184, 8185, 1, -128>>,
      <<8186, 8187, 1, -126>>, <<8188, 8188, 1, -9>>,
      <<8486, 8486, 1, -7517>>, <<8490, 8490, 1, -8383>>,
      <<8491, 8491, 1, -8262>>, <<8498, 8498, 1, 28>>, <<8544, 8559, 1, 16>>,
      <<8579, 8579, 1, 1>>, <<9398, 9423, 1, 26>>, <<11264, 11311, 1, 48>>,
      <<11360, 11360, 1, 1>>, <<11362, 11362, 1, -10743>>,
      <<11363, 11363, 1, -3814>>, <<11364, 11364, 1, -10727>>,
      <<11367, 11371, 2, 1>>, <<11373, 11373, 1, -10780>>,
      <<11374, 11374, 1, -10749>>, <<11375, 11375, 1, -10783>>,
      <<11376, 11376, 1, -10782>>, <<11378, 11378, 1, 1>>,
      <<11381, 11381, 1, 1>>, <<11390, 11391, 1, -10815>>,
      <<11392, 11490, 2, 1>>, <<11499, 11501, 2, 1>>, <<11506, 11506, 1, 1>>,
      <<42560, 42604, 2, 1>>, <<42624, 42650, 2, 1>>, <<42786, 42798, 2, 1>>,
      <<42802, 42862, 2, 1>>, <<42873, 42875, 2, 1>>,
      <<42877, 42877, 1, -35332>>, <<42878, 42886, 2, 1>>,
      <<42891, 42891, 1, 1>>, <<42893, 42893, 1, -42280>>,
      <<42896, 42898, 2, 1>>, <<42902, 42920, 2, 1>>,
      <<42922, 42922, 1, -42308>>, <<42923, 42923, 1, -42319>>,
      <<42924, 42924, 1, -42315>>, <<42925, 42925, 1, -42305>>,
      <<42926, 42926, 1, -42308>>, <<42928, 42928, 1, -42258>>,
      <<42929, 42929, 1, -42282>>, <<42930, 42930, 1, -42261>>,
      <<42931, 42931, 1, 928>>, <<42932, 42946, 2, 1>>,
      <<42948, 42948, 1, -48>>, <<42949, 42949, 1, -42307>>,
      <<42950, 42950, 1, -35384>>, <<42951, 42953, 2, 1>>,
      <<42960, 42960, 1, 1>>, <<42966, 42968, 2, 1>>, <<42997, 42997, 1, 1>>,
      <<65313, 65338, 1, 32>>, <<66560, 66599, 1, 40>>,
      <<66736, 66771, 1, 40>>, <<66928, 66938, 1, 39>>,
      <<66940, 66954, 1, 39>>, <<66956, 66962, 1, 39>>,
      <<66964, 66965, 1, 39>>, <<68736, 68786, 1, 64>>,
      <<71840, 71871, 1, 32>>, <<93760, 93791, 1, 32>>,
      <<125184, 125217, 1, 34>> >>

RECURSIVE FindRange(_, _, _)
\* the first entry among a..b of LowerRanges, which is sorted and without
\* overlap, that ends at r or above; b + 1 if there is none
FindRange(r, a, b) ==
    IF a > b THEN a
    ELSE LET m == (a + b) \div 2
         IN  IF LowerRanges[m][2] >= r THEN FindRange(r, a, m - 1)
             ELSE FindRange(r, m + 1, b)

\* unicode.ToLower: the simple lowercase mapping of r, or r if it has none
LowerRune(r) ==
    IF r < 128 THEN (IF r >= 65 /\ r <= 90 THEN r + 32 ELSE r)
    ELSE LET k == FindRange(r, 1, Len(LowerRanges))
         IN  IF /\ k <= Len(LowerRanges)
                /\ r >= LowerRanges[k][1]
                /\ (r - LowerRanges[k][1]) % LowerRanges[k][3] = 0
             THEN r + LowerRanges[k][4]
             ELSE r

RECURSIVE ToLower(_)
\* strings.ToLower: unicode.ToLower mapped over the runes of s, each result
\* encoded again; a byte of an ill-formed encoding becomes U+FFFD
ToLower(s) ==
    IF s = <<>> THEN s
    ELSE LET d == DecodeRune(s, 1)
         IN  EncodeRune(LowerRune(d.rune)) \o ToLower(SubSeq(s, d.width + 1, Len(s)))

\* strings.ReplaceAll(s, old, new) for one-byte old and new
ReplaceAll(s, old, new) == [i \in 1..Len(s) |-> IF s[i] = old THEN new ELSE s[i]]

\* strings.TrimSuffix(s, suffix)
TrimSuffix(s, suffix) ==
    IF Len(suffix) <= Len(s) /\ SubSeq(s, Len(s) - Len(suffix) + 1, Len(s)) = suffix
    THEN SubSeq(s, 1, Len(s) - Len(suffix))
    ELSE s

\* filepath.Base on a slash-separated path
Base(path) ==
    IF path = <<>> THEN <<46>>
    ELSE LET p == TrimRight(path, {47})
         IN  IF p = <<>> THEN <<47>>
             ELSE IF \A i \in 1..Len(p) : p[i] # 47 THEN p
             ELSE LET i == CHOOSE i \in 1..Len(p) :
                               p[i] = 47 /\ \A j \in (i + 1)..Len(p) : p[j] # 47
                  IN  SubSeq(p, i + 1, Len(p))

\* filepath.Ext: the suffix from the last dot of the last path element
Ext(path) ==
    LET dots == {i \in 1..Len(path) :
                    path[i] = 46 /\ \A j \in (i + 1)..Len(path) : path[j] \notin {46, 47}}
    IN  IF dots = {} THEN <<>>
        ELSE LET i == CHOOSE i \in dots : TRUE IN SubSeq(path, i, Len(path))

RECURSIVE CarryOut(_, _, _, _)
\* the carry out of the top limb of x * m + carry
CarryOut(x, m, i, carry) ==
    IF i > Len(x) THEN carry
    ELSE CarryOut(x, m, i + 1, (x[i] * m + carry) \div Limb)

Zero(width) == [k \in 1..(width \div 16) |-> 0]

RECURSIVE ParseDigits(_, _, _)
\* the digit loop of strconv.ParseUint in base 10, from byte i of s on
ParseDigits(s, i, acc) ==
    IF i > Len(s) THEN [err |-> "nil", val |-> acc]
    ELSE IF s[i] < 48 \/ s[i] > 57 THEN [err |-> "syntax", val |-> acc]
    ELSE IF CarryOut(acc, 10, 1, s[i] - 48) # 0 THEN [err |-> "range", val |-> acc]
    ELSE ParseDigits(s, i + 1, MulCarry(acc, 10, 1, s[i] - 48))

\* strconv.ParseUint(s, 10, bitSize)
ParseUint(s, bitSize) ==
    IF s = <<>> THEN [err |-> "syntax", val |-> Zero(bitSize)]
    ELSE ParseDigits(s, 1, Zero(bitSize))

\* strconv.ParseInt(s, 10, 64): a sign and a magnitude
ParseInt(s) ==
    IF s = <<>> THEN [err |-> "syntax", neg |-> FALSE, val |-> Zero(64)]
    ELSE LET neg == s[1] = 45
             body == IF s[1] \in {43, 45} THEN Tail(s) ELSE s
             u == ParseUint(body, 64)
             top == u.val[4]
             low == u.val[1] + u.val[2] + u.val[3]
         IN  IF u.err # "nil" THEN [err |-> u.err, neg |-> FALSE, val |-> Zero(64)]
             ELSE IF ~neg /\ top >= 32768
                  THEN [err |-> "range", neg |-> FALSE, val |-> Zero(64)]
             ELSE IF neg /\ (top > 32768 \/ (top = 32768 /\ low > 0))
                  THEN [err |-> "range", neg |-> FALSE, val |-> Zero(64)]
             ELSE [err |-> "nil", neg |-> neg /\ ~IsZero(u.val), val |-> u.val]

RECURSIVE DivTen(_, _, _)
\* x \div 10 on limbs, from the top limb i down, with the running remainder
DivTen(x, i, rem) ==
    IF i = 0 THEN <<>>
    ELSE LET cur == rem * Limb + x[i]
         IN  DivTen(x, i - 1, cur % 10) \o <<cur \div 10>>

RECURSIVE ModTen(_, _, _)
ModTen(x, i, rem) ==
    IF i = 0 THEN rem ELSE ModTen(x, i - 1, (rem * Limb + x[i]) % 10)

RECURSIVE Decimal(_)
\* the decimal digits of a limb value
Decimal(x) ==
    LET q == DivTen(x, Len(x), 0)
        d == <<48 + ModTen(x, Len(x), 0)>>
    IN  IF IsZero(q) THEN d ELSE Decimal(q) \o d

\* fmt.Sprintf("%dMi", n) for an int64 n
FormatMi(n) == (IF n.neg THEN <<45>> ELSE <<>>) \o Decimal(n.val) \o <<77, 105>>

----------------------------------------------------------------------------
(* File reads *)

Min(a, b) == IF a < b THEN a ELSE b

HasPrefix(s, p) == Len(s) >= Len(p) /\ SubSeq(s, 1, Len(p)) = p

\* x + n in the width of x, for an integer 0 <= n < 2^31
AddInt(x, n) == MulCarry(x, 1, 1, n)

Max(a, b) == IF a > b THEN a ELSE b

\* a regular file: its bytes, followed by `hole` zero bytes
File(bytes, h) == [bytes |-> bytes, hole |-> h]

\* the size of a file
Size(f) == Len(f.bytes) + f.hole

\* the k bytes of file f from byte offset o on, for o + k <= Size(f)
Slice(f, o, k) ==
    LET e == Len(f.bytes)
    IN  (IF o < e THEN SubSeq(f.bytes, o + 1, Min(o + k, e)) ELSE <<>>)
            \o [i \in 1..(o + k - Max(o, e)) |-> 0]

\* file.ReadAt(buf, off) on a regular file, with len(buf) = n and off an
\* int64 given as the uint64 it was cast from: the count read, the error and
\* the bytes read.  os.File.ReadAt rejects a negative offset, reads nothing
\* into an empty buffer, and reports io.EOF when it reads fewer than n bytes;
\* pread(2) fails with EINVAL when off + n passes the largest int64.
ReadAt(f, n, off) ==
    IF NegativeAsInt64(off) THEN [n |-> 0, err |-> "negative offset", got |-> <<>>]
    ELSE IF n = 0 THEN [n |-> 0, err |-> "nil", got |-> <<>>]
    ELSE IF NegativeAsInt64(AddInt(off, n))
         THEN [n |-> 0, err |-> "EINVAL", got |-> <<>>]
    ELSE IF GreaterThanInt(off, Size(f)) \/ ToInt(off) >= Size(f)
         THEN [n |-> 0, err |-> "EOF", got |-> <<>>]
    ELSE LET o == ToInt(off)
             got == Slice(f, o, Min(n, Size(f) - o))
         IN  [n |-> Len(got), err |-> IF Len(got) < n THEN "EOF" ELSE "nil",
              got |-> got]

\* the sizes the Go allocator serves from 512 to 32768 bytes
SizeClasses ==
    {512, 576, 640, 704, 768, 896, 1024, 1152, 1280, 1408, 1536, 1792, 2048,
     2304, 2688, 3072, 3200, 3456, 4096, 4864, 5376, 6144, 6528, 6784,
     6912, 8192, 9472, 9728, 10240, 10880, 12288, 13568, 14336, 16384, 18432,
     19072, 20480, 21760, 24576, 27264, 28672, 32768}

\* the capacity append gives a full byte slice of capacity c >= 256 that
\* needs one more byte (runtime.growslice of Go 1.20 to 1.25): c + (c + 768) / 4
\* rounded up to an allocator size (a size class, or whole 8192-byte pages
\* above the largest class)
GrowCap(c) ==
    LET want == c + (c + 768) \div 4
    IN  IF want <= 32768
        THEN CHOOSE k \in SizeClasses :
                k >= want /\ \A j \in SizeClasses : j >= want => k <= j
        ELSE ((want + 8191) \div 8192) * 8192

\* io.ReadAll starts with a 512-byte buffer
readAllInitialCap == 512

RECURSIVE ReadAllLoop(_, _, _)
\* the loop of io.ReadAll (Go up to 1.25) on a file positioned at Size(b):
\* Read into the free capacity of b until Read reports io.EOF, and let
\* append grow b whenever it is full.  Yields the bytes read, the reads
\* issued and the capacities allocated after the first.  The bytes read so
\* far, b, are kept as the file is: bytes, followed by a count of zero bytes.
ReadAllLoop(f, b, cap) ==
    LET asked == cap - Size(b)
        n == Min(asked, Size(f) - Size(b))
        rd == <<[off |-> Size(b), len |-> asked, n |-> n]>>
        e == Len(f.bytes)
        got == IF Size(b) < e
               THEN SubSeq(f.bytes, Size(b) + 1, Min(Size(b) + n, e)) ELSE <<>>
        b2 == File(b.bytes \o got, b.hole + (n - Len(got)))
    IN  IF n = 0 THEN [content |-> b, reads |-> rd, caps |-> <<>>]
        ELSE IF Size(b2) = cap
        THEN LET rest == ReadAllLoop(f, b2, GrowCap(cap))
             IN  [content |-> rest.content, reads |-> rd \o rest.reads,
                  caps |-> <<GrowCap(cap)>> \o rest.caps]
        ELSE LET rest == ReadAllLoop(f, b2, cap)
             IN  [content |-> rest.content, reads |-> rd \o rest.reads,
                  caps |-> rest.caps]

\* io.ReadAll(file) after file.Seek(0, io.SeekStart)
ReadAll(f, b, cap) ==
    LET all == ReadAllLoop(f, b, cap)
    IN  [content |-> all.content, reads |-> all.reads, caps |-> <<cap>> \o all.caps]

\* a file position below 2^31 as an int64
FromInt(k) == <<k % Limb, k \div Limb, 0, 0>>

\* a buffer made by make([]byte, n) after a read put `got` at its start
Buffer(got, n) == got \o [i \in 1..(n - Len(got)) |-> 0]

\* an allocation (off is <<>>) of a buffer of len bytes, the header fields
\* its size was computed from, and the fields checked so far
Use(off, len, fromHeader, checked) ==
    [off |-> off, len |-> len, fromHeader |-> fromHeader, checked |-> checked]

\* a read of len bytes at off that put n bytes into memory
ReadOf(off, len, n, fromHeader, checked) ==
    [off |-> off, len |-> len, n |-> n, fromHeader |-> fromHeader,
     checked |-> checked]

NoResult == [returned |-> FALSE]

\* the values returned: the text is descriptor followed by `hole` zero bytes
Return(descriptor, isVMDK, err) ==
    [returned |-> TRUE, descriptor |-> descriptor, hole |-> 0,
     isVMDK |-> isVMDK, err |-> err]

----------------------------------------------------------------------------
(* ExtractVMDKDescriptor: src/pkg/vmx/vmx.go 112-186 *)

\* lines 113-117: os.Open fails on a path that names no file; it opens a
\* directory as it opens a regular file
OpenFile ==
    /\ pc = "open"
    /\ IF fileKind = "missing"
       THEN /\ result' = Return(<<>>, FALSE, "open failed")
            /\ pc' = "done"
       ELSE /\ pc' = "probe"
            /\ UNCHANGED result
    /\ UNCHANGED cvars
    /\ UNCHANGED <<fileKind, stream, hole, window, offSectors, sizeSectors, offBytes,
                   sizeBytes, validated, reads, allocs>>

\* lines 119-129: the probe read of up to initialReadSize bytes at offset 0;
\* a read of a directory fails with EISDIR
ReadInitial ==
    /\ pc = "probe"
    /\ LET r == IF fileKind = "directory"
                THEN [n |-> 0, err |-> "EISDIR", got |-> <<>>]
                ELSE ReadAt(File(stream, hole), initialReadSize, <<0, 0, 0, 0>>)
       IN  /\ reads' = Append(reads,
                  ReadOf(<<0, 0, 0, 0>>, initialReadSize, r.n, {}, validated))
           /\ allocs' = Append(allocs, Use(<<>>, initialReadSize, {}, validated))
           /\ IF r.err # "nil" /\ r.err # "EOF"
              THEN /\ result' = Return(<<>>, FALSE, "read initial failed")
                   /\ pc' = "done"
                   /\ UNCHANGED window
              ELSE IF r.n = 0 /\ r.err = "EOF"
              THEN /\ result' = Return(<<>>, FALSE, "empty")
                   /\ pc' = "done"
                   /\ UNCHANGED window
              ELSE /\ window' = r.got
                   /\ pc' = "signature"
                   /\ UNCHANGED result
    /\ UNCHANGED cvars
    /\ UNCHANGED <<fileKind, stream, hole, offSectors, sizeSectors, offBytes, sizeBytes,
                   validated>>

\* line 132: is this a descriptor-only file?
CheckSignature ==
    /\ pc = "signature"
    /\ pc' = IF HasPrefix(window, vmdkDescriptorFileSignature)
             THEN "readall" ELSE "magic"
    /\ UNCHANGED cvars
    /\ UNCHANGED <<fileKind, stream, hole, window, offSectors, sizeSectors, offBytes, sizeBytes,
                   validated, reads, allocs, result>>

\* ReadWholeFile with the seek and io.ReadAll left out: the probe is returned
ReadWholeFileProbeOnly ==
    /\ pc = "readall"
    /\ result' = Return(window, TRUE, "nil")
    /\ pc' = "done"
    /\ UNCHANGED cvars
    /\ UNCHANGED <<fileKind, stream, hole, window, offSectors, sizeSectors, offBytes, sizeBytes,
                   validated, reads, allocs>>

\* lines 135-142: seek to the start and io.ReadAll the file.  Neither the
\* seek nor a read of an open regular file fails on any content, so their
\* error returns are never taken here.
ReadWholeFile ==
    /\ pc = "readall"
    /\ LET all == ReadAll(File(stream, hole), File(<<>>, 0), readAllInitialCap)
       IN  /\ reads' = reads \o
                  [i \in 1..Len(all.reads) |->
                      ReadOf(FromInt(all.reads[i].off), all.reads[i].len,
                             all.reads[i].n, {}, validated)]
           /\ allocs' = allocs \o
                  [i \in 1..Len(all.caps) |-> Use(<<>>, all.caps[i], {}, validated)]
           /\ result' = [Return(all.content.bytes, TRUE, "nil")
                             EXCEPT !.hole = all.content.hole]
    /\ pc' = "done"
    /\ UNCHANGED cvars
    /\ UNCHANGED <<fileKind, stream, hole, window, offSectors, sizeSectors, offBytes, sizeBytes,
                   validated>>

\* CheckMagic reporting a truncated KDMV header as an unrecognized file
CheckMagicTruncatedUnrecognized ==
    /\ pc = "magic"
    /\ IF Len(window) < 4
       THEN /\ result' = Return(<<>>, FALSE, "too small")
            /\ pc' = "done"
       ELSE IF LittleEndianUint(SubSeq(window, 1, 4)) # vmdkMagicKDMV
       THEN /\ result' = Return(<<>>, FALSE, "not recognized")
            /\ pc' = "done"
       ELSE IF Len(window) < minHeaderSizeForDescFields
       THEN /\ result' = Return(<<>>, FALSE, "header too small")
            /\ pc' = "done"
       ELSE /\ pc' = "header"
            /\ UNCHANGED result
    /\ UNCHANGED cvars
    /\ UNCHANGED <<fileKind, stream, hole, window, offSectors, sizeSectors, offBytes, sizeBytes,
                   validated, reads, allocs>>

\* lines 146-154 and 185: the magic number and the header length
CheckMagic ==
    /\ pc = "magic"
    /\ IF Len(window) < 4
       THEN /\ result' = Return(<<>>, FALSE, "too small")
            /\ pc' = "done"
       ELSE IF LittleEndianUint(SubSeq(window, 1, 4)) # vmdkMagicKDMV
       THEN /\ result' = Return(<<>>, FALSE, "not recognized")
            /\ pc' = "done"
       ELSE IF Len(window) < minHeaderSizeForDescFields
       THEN /\ result' = Return(<<>>, TRUE, "header too small")
            /\ pc' = "done"
       ELSE /\ pc' = "header"
            /\ UNCHANGED result
    /\ UNCHANGED cvars
    /\ UNCHANGED <<fileKind, stream, hole, window, offSectors, sizeSectors, offBytes, sizeBytes,
                   validated, reads, allocs>>

\* lines 156-157: the two uint64 fields of the header
ReadHeaderFields ==
    /\ pc = "header"
    /\ offSectors' = LittleEndianUint(SubSeq(window,
           descriptorOffsetInHeaderPos + 1, descriptorOffsetInHeaderPos + 8))
    /\ sizeSectors' = LittleEndianUint(SubSeq(window,
           descriptorSizeInHeaderPos + 1, descriptorSizeInHeaderPos + 8))
    /\ pc' = "zero"
    /\ UNCHANGED cvars
    /\ UNCHANGED <<fileKind, stream, hole, window, offBytes, sizeBytes, validated, reads, allocs,
                   result>>

\* CheckZeroSize with the offset left in sectors
CheckZeroSizeOffsetUnscaled ==
    /\ pc = "zero"
    /\ IF IsZero(sizeSectors)
       THEN /\ result' = Return(<<>>, TRUE, "zero sectors")
            /\ pc' = "done"
            /\ UNCHANGED <<offBytes, sizeBytes>>
       ELSE /\ offBytes' = offSectors
            /\ sizeBytes' = WrapMul(sizeSectors, sectorSize)
            /\ pc' = "ceiling"
            /\ UNCHANGED result
    /\ UNCHANGED cvars
    /\ UNCHANGED <<fileKind, stream, hole, window, offSectors, sizeSectors, validated, reads, allocs>>

\* lines 159-164: a zero size is rejected, then both fields are scaled
CheckZeroSize ==
    /\ pc = "zero"
    /\ IF IsZero(sizeSectors)
       THEN /\ result' = Return(<<>>, TRUE, "zero sectors")
            /\ pc' = "done"
            /\ UNCHANGED <<offBytes, sizeBytes>>
       ELSE /\ offBytes' = WrapMul(offSectors, sectorSize)
            /\ sizeBytes' = WrapMul(sizeSectors, sectorSize)
            /\ pc' = "ceiling"
            /\ UNCHANGED result
    /\ UNCHANGED cvars
    /\ UNCHANGED <<fileKind, stream, hole, window, offSectors, sizeSectors, validated, reads, allocs>>

\* CheckCeiling comparing the sector count, not the byte count, to the ceiling
CheckCeilingOnSectors ==
    /\ pc = "ceiling"
    /\ IF GreaterThanInt(sizeSectors, maxDescriptorSizeBytes)
       THEN /\ result' = Return(<<>>, TRUE, "exceeds maximum")
            /\ pc' = "done"
            /\ UNCHANGED validated
       ELSE /\ validated' = validated \cup {"descriptorSize"}
            /\ pc' = "read"
            /\ UNCHANGED result
    /\ UNCHANGED cvars
    /\ UNCHANGED <<fileKind, stream, hole, window, offSectors, sizeSectors, offBytes, sizeBytes,
                   reads, allocs>>

\* lines 166-169: the sanity ceiling on the descriptor size
CheckCeiling ==
    /\ pc = "ceiling"
    /\ IF GreaterThanInt(sizeBytes, maxDescriptorSizeBytes)
       THEN /\ result' = Return(<<>>, TRUE, "exceeds maximum")
            /\ pc' = "done"
            /\ UNCHANGED validated
       ELSE /\ validated' = validated \cup {"descriptorSize"}
            /\ pc' = "read"
            /\ UNCHANGED result
    /\ UNCHANGED cvars
    /\ UNCHANGED <<fileKind, stream, hole, window, offSectors, sizeSectors, offBytes, sizeBytes,
                   reads, allocs>>

\* lines 171-182: allocate the buffer, read the region, return it
ReadDescriptor ==
    /\ pc = "read"
    /\ LET n == ToInt(sizeBytes)
           r == ReadAt(File(stream, hole), n, offBytes)
       IN  /\ allocs' = Append(allocs,
                  Use(<<>>, n, {"descriptorSize"}, validated))
           /\ reads' = Append(reads,
                  ReadOf(offBytes, n, r.n, {"descriptorOffset", "descriptorSize"},
                         validated))
           /\ result' =
                IF r.err # "nil" /\ r.err # "EOF"
                THEN Return(<<>>, TRUE, "read failed")
                ELSE IF r.n < n
                THEN Return(<<>>, TRUE, "read fewer bytes")
                ELSE Return(Buffer(r.got, n), TRUE, "nil")
    /\ pc' = "done"
    /\ UNCHANGED cvars
    /\ UNCHANGED <<fileKind, stream, hole, window, offSectors, sizeSectors, offBytes, sizeBytes,
                   validated>>

ExtractNext ==
    \/ OpenFile
    \/ ReadInitial
    \/ CheckSignature
    \/ ReadWholeFile
    \/ CheckMagic
    \/ ReadHeaderFields
    \/ CheckZeroSize
    \/ CheckCeiling
    \/ ReadDescriptor

----------------------------------------------------------------------------
(* The files ExtractVMDKDescriptor is run on *)

\* a byte of payload that differs from sector to sector
Filler(i) == (i * 7 + (i \div sectorSize) * 3) % 251

\* the 8 bytes of a uint64 header field: small sector counts, the largest
\* size under the ceiling and the first above it, and values whose product
\* with the sector size comes close to 2^63, or passes 2^63 or 2^64
SmallField == {<<k, 0, 0, 0, 0, 0, 0, 0>> : k \in 0..MaxSectors}

WideField ==
    { <<0, 128, 0, 0, 0, 0, 0, 0>>,        \* 32768 = 16 MiB / 512
      <<1, 128, 0, 0, 0, 0, 0, 0>>,        \* 32769
      <<254, 255, 255, 255, 255, 255, 63, 0>>, \* 2^54 - 2: 1024 below 2^63
      <<255, 255, 255, 255, 255, 255, 63, 0>>, \* 2^54 - 1: 512 below 2^63
      <<0, 0, 0, 0, 0, 0, 64, 0>>,         \* 2^54: times 512 is 2^63
      <<0, 0, 0, 0, 0, 0, 128, 0>>,        \* 2^55: times 512 is 2^64
      <<1, 0, 0, 0, 0, 0, 128, 0>>,        \* 2^55 + 1
      <<255, 255, 255, 255, 255, 255, 255, 255>> }

HeaderField == SmallField \cup WideField

StreamLen ==
    {0, 1, 3, 4, 20, 21, 22, 43, 44, 255, 256, 257}
        \cup {k * sectorSize + d : k \in 1..MaxStreamSectors, d \in {-1, 0, 40}}

\* 'K' 'D' 'M' 'V': 0x564d444b stored little-endian
MagicBytes == <<75, 68, 77, 86>>

KDMVStream(o, sz, n) ==
    [i \in 1..n |->
        IF i <= 4 THEN MagicBytes[i]
        ELSE IF i > descriptorOffsetInHeaderPos /\ i <= descriptorOffsetInHeaderPos + 8
             THEN o[i - descriptorOffsetInHeaderPos]
        ELSE IF i > descriptorSizeInHeaderPos /\ i <= descriptorSizeInHeaderPos + 8
             THEN sz[i - descriptorSizeInHeaderPos]
        ELSE Filler(i)]

DescriptorStream(n) ==
    [i \in 1..n |->
        IF i <= Len(vmdkDescriptorFileSignature)
        THEN vmdkDescriptorFileSignature[i] ELSE Filler(i)]

\* the magic bytes in the wrong order, and plain payload
OtherStream(n) ==
    [i \in 1..n |-> IF i <= 4 THEN MagicBytes[5 - i] ELSE Filler(i)]

Streams ==
    {KDMVStream(o, sz, n) : o \in HeaderField, sz \in HeaderField, n \in StreamLen}
        \cup {DescriptorStream(n) : n \in StreamLen}
        \cup {OtherStream(n) : n \in StreamLen}

\* the zero bytes that may follow a descriptor-only text: none, or as many as
\* the sanity ceiling counts, which makes the file larger than the ceiling
Holes == {0, maxDescriptorSizeBytes}

Nil == [nil |-> TRUE]

ConvertIdle ==
    /\ vmxPath = <<>>
    /\ fileOk = FALSE
    /\ content = <<>>
    /\ lines = <<>>
    /\ lineIdx = 0
    /\ config = Nil
    /\ log = <<>>
    /\ parsed = NoResult
    /\ vm = NoResult

ExtractStart ==
    /\ window = <<>>
    /\ offSectors = <<0, 0, 0, 0>>
    /\ sizeSectors = <<0, 0, 0, 0>>
    /\ offBytes = <<0, 0, 0, 0>>
    /\ sizeBytes = <<0, 0, 0, 0>>
    /\ validated = {}
    /\ reads = <<>>
    /\ allocs = <<>>
    /\ result = NoResult

\* main with -vmdk-info: src/main.go 37-54
ExtractInit ==
    /\ pc = "open"
    /\ \/ /\ fileKind = "regular"
          /\ stream \in Streams
          /\ hole \in IF HasPrefix(stream, vmdkDescriptorFileSignature)
                      THEN Holes ELSE {0}
       \/ fileKind \in {"missing", "directory"} /\ stream = <<>> /\ hole = 0
    /\ ExtractStart
    /\ ConvertIdle

SpecExtract == ExtractInit /\ [][ExtractNext]_vars

----------------------------------------------------------------------------
(* ParseVMX: src/pkg/vmx/vmx.go 19-71 *)

KeyDisplayName == <<100, 105, 115, 112, 108, 97, 121, 110, 97, 109, 101>>
KeyNumVCPUs == <<110, 117, 109, 118, 99, 112, 117, 115>>
KeyMemSize == <<109, 101, 109, 115, 105, 122, 101>>

\* lines 25-28: NumVCPUs 1 and MemoryMiB 1024
DefaultConfig ==
    [DisplayName |-> <<>>,
     NumVCPUs |-> <<1, 0>>,
     MemoryMiB |-> [neg |-> FALSE, val |-> <<1024, 0, 0, 0>>]]

\* lines 32-44: the key and the value of a line, if it has them
ParseLine(line) ==
    LET t == TrimSpace(line)
    IN  IF t = <<>> \/ t[1] = 35 THEN [pair |-> FALSE]
        ELSE LET parts == SplitN2(t, 61)
             IN  IF Len(parts) # 2 THEN [pair |-> FALSE]
                 ELSE [pair |-> TRUE,
                       key |-> TrimSpace(parts[1]),
                       value |-> Trim(TrimSpace(parts[2]), {34})]

Warning(kind, value) == [warning |-> kind, value |-> value]

\* lines 20-29: read the file, make the default record, split the lines
ReadFile ==
    /\ pc = "readfile"
    /\ IF ~fileOk
       THEN /\ parsed' = [returned |-> TRUE, config |-> Nil, err |-> "read failed"]
            /\ pc' = "done"
            /\ UNCHANGED <<config, lines, lineIdx>>
       ELSE /\ config' = DefaultConfig
            /\ lines' = Split(content, 10)
            /\ lineIdx' = 1
            /\ pc' = "scan"
            /\ UNCHANGED parsed
    /\ UNCHANGED <<vmxPath, fileOk, content, log, vm>>
    /\ UNCHANGED evars

\* line 48: a displayName line
SetDisplayName(cfg, lg, value) ==
    [config |-> [cfg EXCEPT !.DisplayName = value], log |-> lg]

\* SetNumVCPUs storing the result of ParseUint whether or not it failed
SetNumVCPUsAssignsOnError(cfg, lg, value) ==
    LET cpus == ParseUint(value, 32)
    IN  IF cpus.err = "nil"
        THEN [config |-> [cfg EXCEPT !.NumVCPUs = cpus.val], log |-> lg]
        ELSE [config |-> [cfg EXCEPT !.NumVCPUs = Zero(32)],
              log |-> Append(lg, Warning("numvcpus", value))]

\* lines 50-54: a numvcpus line
SetNumVCPUs(cfg, lg, value) ==
    LET cpus == ParseUint(value, 32)
    IN  IF cpus.err = "nil"
        THEN [config |-> [cfg EXCEPT !.NumVCPUs = cpus.val], log |-> lg]
        ELSE [config |-> cfg, log |-> Append(lg, Warning("numvcpus", value))]

\* lines 56-60: a memsize line
SetMemoryMiB(cfg, lg, value) ==
    LET mem == ParseInt(value)
    IN  IF mem.err = "nil"
        THEN [config |-> [cfg EXCEPT !.MemoryMiB = [neg |-> mem.neg, val |-> mem.val]],
              log |-> lg]
        ELSE [config |-> cfg, log |-> Append(lg, Warning("memsize", value))]

\* lines 32-61: the body of the loop for one line
ApplyLine(cfg, lg, line) ==
    LET kv == ParseLine(line)
        key == ToLower(kv.key)
    IN  IF ~kv.pair THEN [config |-> cfg, log |-> lg]
        ELSE IF key = KeyDisplayName THEN SetDisplayName(cfg, lg, kv.value)
        ELSE IF key = KeyNumVCPUs THEN SetNumVCPUs(cfg, lg, kv.value)
        ELSE IF key = KeyMemSize THEN SetMemoryMiB(cfg, lg, kv.value)
        ELSE [config |-> cfg, log |-> lg]

\* lines 31-62: one iteration of the loop over the lines
ScanLine ==
    /\ pc = "scan"
    /\ lineIdx <= Len(lines)
    /\ LET r == ApplyLine(config, log, lines[lineIdx])
       IN  /\ config' = r.config
           /\ log' = r.log
    /\ lineIdx' = lineIdx + 1
    /\ UNCHANGED <<pc, vmxPath, fileOk, content, lines, parsed, vm>>
    /\ UNCHANGED evars

\* FallbackName with the extension kept
FallbackNameKeepsExt(path) == Base(path)

\* lines 65-66: the base name of the path without its extension
FallbackName(path) == TrimSuffix(Base(path), Ext(Base(path)))

\* lines 64-70: the fallback display name, and the return
FinishParse ==
    /\ pc = "scan"
    /\ lineIdx > Len(lines)
    /\ IF config.DisplayName = <<>>
       THEN LET name == FallbackName(vmxPath)
            IN  /\ config' = [config EXCEPT !.DisplayName = name]
                /\ log' = Append(log, Warning("fallback", name))
       ELSE UNCHANGED <<config, log>>
    /\ parsed' = [returned |-> TRUE, config |-> config', err |-> "nil"]
    /\ pc' = "build"
    /\ UNCHANGED <<vmxPath, fileOk, content, lines, lineIdx, vm>>
    /\ UNCHANGED evars

----------------------------------------------------------------------------
(* CreateKubeVirtVM: src/unnamed/part_000 21-119 *)

\* line 33: the length limit of a resource name
maxNameLen == 63

\* lines 22-35: the override or the display name, sanitized and truncated
VMName(cfg, vmNameOverride) ==
    LET chosen == IF vmNameOverride = <<>> THEN cfg.DisplayName ELSE vmNameOverride
        lower == ToLower(chosen)
        dashed == ReplaceAll(ReplaceAll(lower, 32, 45), 95, 45)
    IN  IF Len(dashed) > maxNameLen THEN SubSeq(dashed, 1, maxNameLen) ELSE dashed

\* the suffixes resource.ParseQuantity accepts
QuantitySuffix ==
    { <<>>, <<75, 105>>, <<77, 105>>, <<71, 105>>, <<84, 105>>, <<80, 105>>,
      <<69, 105>>, <<110>>, <<117>>, <<109>>, <<107>>, <<77>>, <<71>>, <<84>>,
      <<80>>, <<69>> }

\* line 41: resource.ParseQuantity accepts a sign, digits and a known suffix
ParseQuantityOk(s) ==
    LET body == IF s # <<>> /\ s[1] \in {43, 45} THEN Tail(s) ELSE s
        rest == TrimLeft(body, 48..57)
    IN  /\ Len(rest) < Len(body)
        /\ rest \in QuantitySuffix

\* a display name longer than a resource name may be
LongName == [i \in 1..(maxNameLen + LongNameExcess) |-> 65 + (i % 26)]

\* a name of two-byte capitals ('\u00dc') that is longer than a resource
\* name may be in bytes, and shorter in characters
WideName ==
    [i \in 1..(2 * ((maxNameLen + LongNameExcess) \div 2)) |->
        IF i % 2 = 1 THEN 195 ELSE 156]

\* the -name flag values
NameOverride ==
    { <<>>,
      \* Web_Server 01
      <<87, 101, 98, 95, 83, 101, 114, 118, 101, 114, 32, 48, 49>>,
      LongName,
      WideName }

CreateKubeVirtVM ==
    /\ pc = "build"
    /\ \E vmNameOverride \in NameOverride :
          LET vmName == VMName(parsed.config, vmNameOverride)
              memoryQuantityStr == FormatMi(parsed.config.MemoryMiB)
          IN  vm' = IF vmName = <<>>
                    THEN [returned |-> TRUE, override |-> vmNameOverride,
                          vm |-> Nil, err |-> "derived VM name is empty"]
                    ELSE IF ~ParseQuantityOk(memoryQuantityStr)
                    THEN [returned |-> TRUE, override |-> vmNameOverride,
                          vm |-> Nil, err |-> "failed to parse memory quantity"]
                    ELSE [returned |-> TRUE, override |-> vmNameOverride,
                          vm |-> [Name |-> vmName,
                                  Cores |-> parsed.config.NumVCPUs,
                                  Guest |-> memoryQuantityStr],
                          err |-> "nil"]
    /\ pc' = "done"
    /\ UNCHANGED <<vmxPath, fileOk, content, lines, lineIdx, config, log, parsed>>
    /\ UNCHANGED evars

ConvertNext ==
    \/ ReadFile
    \/ ScanLine
    \/ FinishParse
    \/ CreateKubeVirtVM

----------------------------------------------------------------------------
(* The VMX files ParseVMX is run on *)

LinePool ==
    {
      \* displayName = "My_VM 1"
      <<100, 105, 115, 112, 108, 97, 121, 78, 97, 109, 101, 32, 61, 32, 34, 77, 121, 95, 86, 77, 32, 49, 34>>,
      \* DisplayName = ""
      <<68, 105, 115, 112, 108, 97, 121, 78, 97, 109, 101, 32, 61, 32, 34, 34>>,
      \* displayname=<LongName>
      <<100, 105, 115, 112, 108, 97, 121, 110, 97, 109, 101, 61>> \o LongName,
      \* numvcpus = "4"
      <<110, 117, 109, 118, 99, 112, 117, 115, 32, 61, 32, 34, 52, 34>>,
      \* numvcpus = "foo"
      <<110, 117, 109, 118, 99, 112, 117, 115, 32, 61, 32, 34, 102, 111, 111, 34>>,
      \* NUMVCPUS = 4294967296
      <<78, 85, 77, 86, 67, 80, 85, 83, 32, 61, 32, 52, 50, 57, 52, 57, 54, 55, 50, 57, 54>>,
      \* memsize = "8192"
      <<109, 101, 109, 115, 105, 122, 101, 32, 61, 32, 34, 56, 49, 57, 50, 34>>,
      \* # displayName = "hidden"
      <<35, 32, 100, 105, 115, 112, 108, 97, 121, 78, 97, 109, 101, 32, 61, 32, 34, 104, 105, 100, 100, 101, 110, 34>>,
      \* \tMemSize = -5\r
      <<9, 77, 101, 109, 83, 105, 122, 101, 32, 61, 32, 45, 53, 13>>,
      \* memsize = "9223372036854775808"
      <<109, 101, 109, 115, 105, 122, 101, 32, 61, 32, 34, 57, 50, 50, 51, 51, 55, 50, 48, 51, 54, 56, 53, 52, 55, 55, 53, 56, 48, 56, 34>>,
      \* D\u0130SPLAYNAME\u00a0= "\u00dc\u0181\uff21_vm"\u3000
      <<68, 196, 176, 83, 80, 76, 65, 89, 78, 65, 77, 69, 194, 160, 61, 32, 34,
        195, 156, 198, 129, 239, 188, 161, 95, 118, 109, 34, 227, 128, 128>>,
      \* guestOS = "other"
      <<103, 117, 101, 115, 116, 79, 83, 32, 61, 32, 34, 111, 116, 104, 101, 114, 34>>
    }

VmxPaths ==
    {
      \* /vms/web01.vmx
      <<47, 118, 109, 115, 47, 119, 101, 98, 48, 49, 46, 118, 109, 120>>,
      \* My_VM 2.vmx
      <<77, 121, 95, 86, 77, 32, 50, 46, 118, 109, 120>>,
      \* .vmx
      <<46, 118, 109, 120>>,
      \* /srv/v1.2/vm
      <<47, 115, 114, 118, 47, 118, 49, 46, 50, 47, 118, 109>>
    }

RECURSIVE Join(_)
\* lines joined by '\n'
Join(ls) ==
    IF ls = <<>> THEN <<>>
    ELSE IF Len(ls) = 1 THEN ls[1]
    ELSE ls[1] \o <<10>> \o Join(Tail(ls))

Contents ==
    {Join(ls) : ls \in UNION {[1..n -> LinePool] : n \in 0..MaxLines}}

ExtractIdle ==
    /\ fileKind = "missing"
    /\ stream = <<>>
    /\ hole = 0
    /\ ExtractStart

\* main with -vmx and -pvc, up to the call of CreateKubeVirtVM: src/main.go 58-67
ConvertInit ==
    /\ pc = "readfile"
    /\ vmxPath \in VmxPaths
    /\ \/ fileOk = TRUE /\ content \in Contents
       \/ fileOk = FALSE /\ content = <<>>
    /\ lines = <<>>
    /\ lineIdx = 0
    /\ config = Nil
    /\ log = <<>>
    /\ parsed = NoResult
    /\ vm = NoResult
    /\ ExtractIdle

SpecConvert == ConvertInit /\ [][ConvertNext]_vars

----------------------------------------------------------------------------
(* Properties of ExtractVMDKDescriptor *)

Returned == pc = "done" /\ result.returned

Failed == result.err # "nil"

StartsWithSignature(f) ==
    /\ Len(f) >= Len(vmdkDescriptorFileSignature)
    /\ \A i \in 1..Len(vmdkDescriptorFileSignature) :
          f[i] = vmdkDescriptorFileSignature[i]

StartsWithMagic(f) ==
    Len(f) >= 4 /\ f[1] = 75 /\ f[2] = 68 /\ f[3] = 77 /\ f[4] = 86

\* a stream with the magic value and the full 44-byte header
FullHeader(f) == StartsWithMagic(f) /\ Len(f) >= 44

\* the 8 header bytes at byte offset pos
FieldBytes(f, pos) == [k \in 1..8 |-> f[pos + k]]

\* the field is below 2^16, and then its value
FitsSmall(b) == \A k \in 3..8 : b[k] = 0
SmallValue(b) == b[1] + 256 * b[2]

DeclaredOffset(f) == FieldBytes(f, 28)
DeclaredSize(f) == FieldBytes(f, 36)

\* S = 0, S > 0 with S * 512 <= 16 MiB (S <= 32768), S * 512 > 16 MiB
SizeIsZero(f) == \A k \in 1..8 : DeclaredSize(f)[k] = 0
SizeInRange(f) ==
    /\ FitsSmall(DeclaredSize(f))
    /\ SmallValue(DeclaredSize(f)) > 0
    /\ SmallValue(DeclaredSize(f)) <= 32768
SizeOverCeiling(f) == ~SizeIsZero(f) /\ ~SizeInRange(f)

\* the stream holds S * 512 bytes from byte offset O * 512 on
HoldsRegion(f) ==
    /\ SizeInRange(f)
    /\ FitsSmall(DeclaredOffset(f))
    /\ SmallValue(DeclaredOffset(f)) * 512 + SmallValue(DeclaredSize(f)) * 512 <= Len(f)

Region(f) ==
    SubSeq(f, SmallValue(DeclaredOffset(f)) * 512 + 1,
              SmallValue(DeclaredOffset(f)) * 512 + SmallValue(DeclaredSize(f)) * 512)

\* C1: for a stream with the magic value whose header declares O and S with
\* S > 0, S*512 <= 16 MiB, and that holds O*512 + S*512 bytes, the call returns
\* no error, isVMDK = true and exactly the S*512 bytes at byte offset O*512.
C1_EmbeddedRegionReturned ==
    (Returned /\ FullHeader(stream) /\ HoldsRegion(stream))
        => /\ result.err = "nil"
           /\ result.isVMDK
           /\ result.descriptor = Region(stream)

\* a region that starts past the header's own sector has been returned
C1_Witness ==
    /\ Returned /\ FullHeader(stream) /\ HoldsRegion(stream)
    /\ SmallValue(DeclaredOffset(stream)) = 1
    /\ SmallValue(DeclaredSize(stream)) = 2
    /\ Len(result.descriptor) = 1024

\* C2: for a stream that begins with "# Disk DescriptorFile" the call returns
\* no error, isVMDK = true and the whole stream, the bytes beyond the 256-byte
\* probe window included (and the zero bytes of a sparse file with them).
C2_DescriptorOnlyWhole ==
    (Returned /\ StartsWithSignature(stream))
        => /\ result.err = "nil"
           /\ result.isVMDK
           /\ result.descriptor = stream
           /\ result.hole = hole

\* a descriptor-only stream longer than the probe window has been returned
C2_Witness ==
    /\ Returned /\ StartsWithSignature(stream)
    /\ Len(stream) > 256
    /\ Len(result.descriptor) > 256

\* C3: for a stream with the magic value and a full header whose size field S
\* has S*512 > 16 MiB, the call fails with isVMDK = true and the read of the
\* descriptor region is never issued (the probe stays the only read).
C3_OversizedNeverRead ==
    (FullHeader(stream) /\ SizeOverCeiling(stream))
        => /\ Len(reads) <= 1
           /\ Returned => (Failed /\ result.isVMDK)

\* C4: for a non-empty stream of a readable regular file, isVMDK is true exactly when the stream begins
\* with the signature or the magic value; a stream shorter than 4 bytes or
\* matching neither fails with isVMDK = false; a magic stream shorter than 44
\* bytes or declaring S = 0 fails with isVMDK = true.
C4_RecognizedIffVariant ==
    (Returned /\ fileKind = "regular" /\ Len(stream) > 0)
        => /\ result.isVMDK <=> (StartsWithSignature(stream) \/ StartsWithMagic(stream))
           /\ (~StartsWithSignature(stream) /\ ~StartsWithMagic(stream))
                 => (Failed /\ ~result.isVMDK)
           /\ (StartsWithMagic(stream) /\ (Len(stream) < 44 \/ SizeIsZero(stream)))
                 => (Failed /\ result.isVMDK)

\* a magic stream declaring S = 0 and a huge offset has failed, recognized
C4_Witness ==
    /\ Returned /\ FullHeader(stream) /\ SizeIsZero(stream)
    /\ ~FitsSmall(DeclaredOffset(stream))
    /\ Failed /\ result.isVMDK

\* C5: for a magic stream with a full header, S > 0 and S*512 <= 16 MiB, and
\* any 64-bit O, when the stream holds fewer than S*512 bytes from byte offset
\* O*512 on, the call fails with isVMDK = true and an empty text.
C5_ShortRegionFails ==
    (Returned /\ FullHeader(stream) /\ SizeInRange(stream) /\ ~HoldsRegion(stream))
        => /\ Failed
           /\ result.isVMDK
           /\ result.descriptor = <<>>

\* C10: every read and every allocation whose arguments were computed from
\* header fields is issued only after each of those fields passed a check.
C10_ValidatedBeforeUse ==
    /\ \A i \in 1..Len(reads) : reads[i].fromHeader \subseteq reads[i].checked
    /\ \A i \in 1..Len(allocs) : allocs[i].fromHeader \subseteq allocs[i].checked

RECURSIVE SumLen(_)
SumLen(uses) == IF uses = <<>> THEN 0 ELSE Head(uses).len + SumLen(Tail(uses))

RECURSIVE SumGot(_)
SumGot(rs) == IF rs = <<>> THEN 0 ELSE Head(rs).n + SumGot(Tail(rs))

\* the number of bytes read into memory so far: what the reads have delivered
Materialized == SumGot(reads)

\* the only buffers are the probe window and, after it, at most one
\* descriptor region whose size was declared by the header and passed the
\* ceiling; what is read fits in them
SizedByProbeOrCeiling ==
    /\ Len(allocs) <= 2
    /\ \A i \in 1..Len(allocs) :
          \/ i = 1 /\ allocs[i].len = initialReadSize
          \/ /\ i = 2
             /\ allocs[i].fromHeader = {"descriptorSize"}
             /\ allocs[i].len <= maxDescriptorSizeBytes
    /\ Materialized <= SumLen(allocs)

\* C11 as claimed: for a stream of any length and of either variant, the
\* number of bytes read into memory never exceeds the 256-byte probe window
\* plus one descriptor region of at most 16 MiB.
C11_AsClaimed == Materialized <= initialReadSize + maxDescriptorSizeBytes

\* C11 amended: for a stream that does not begin with the descriptor-only
\* signature, the bytes read into memory fit in the probe window plus at most
\* one descriptor region bounded by the 16 MiB ceiling, whatever the length of
\* the stream; a descriptor-only stream is read whole after the probe, so the
\* number of bytes read is the probe plus the length of the stream, whatever
\* the ceiling.
C11_BoundedUnlessDescriptorOnly ==
    /\ ~StartsWithSignature(stream) => SizedByProbeOrCeiling
    /\ (Returned /\ StartsWithSignature(stream))
          => Materialized =
                Min(initialReadSize, Len(stream) + hole) + Len(stream) + hole

\* an embedded descriptor has been returned from a stream that is longer than
\* all that was read into memory
C11_Witness ==
    /\ Returned /\ FullHeader(stream) /\ ~Failed
    /\ Len(allocs) = 2
    /\ Materialized < Len(stream)

----------------------------------------------------------------------------
(* Properties of ParseVMX and CreateKubeVirtVM *)

Parsed == parsed.returned /\ parsed.err = "nil"

\* the lines of the file that are key = value lines with the given key
KeyLines(key) ==
    {i \in 1..Len(lines) :
        ParseLine(lines[i]).pair /\ ToLower(ParseLine(lines[i]).key) = key}

ValueOf(i) == ParseLine(lines[i]).value

AllDigits(v) == v # <<>> /\ \A i \in 1..Len(v) : v[i] >= 48 /\ v[i] <= 57

StripZeros(v) == TrimLeft(v, {48})

\* a <= b for two decimal numerals without leading zeros
LeqDecimal(a, b) ==
    \/ Len(a) < Len(b)
    \/ /\ Len(a) = Len(b)
       /\ \/ a = b
          \/ \E i \in 1..Len(a) : a[i] < b[i] /\ \A j \in 1..(i - 1) : a[j] = b[j]

\* the value is a decimal numeral of a uint32
IsUint32(v) == AllDigits(v) /\ LeqDecimal(StripZeros(v), <<52, 50, 57, 52, 57, 54, 55, 50, 57, 53>>)

\* the value is a decimal numeral of an int64, with an optional sign
IsInt64(v) ==
    /\ v # <<>>
    /\ LET digits == IF v[1] \in {43, 45} THEN Tail(v) ELSE v
       IN  /\ AllDigits(digits)
           /\ LeqDecimal(StripZeros(digits),
                  IF v[1] = 45 THEN <<57, 50, 50, 51, 51, 55, 50, 48, 51, 54, 56, 53, 52, 55, 55, 53, 56, 48, 56>>
                  ELSE <<57, 50, 50, 51, 51, 55, 50, 48, 51, 54, 56, 53, 52, 55, 55, 53, 56, 48, 55>>)

\* the loop is at a numvcpus or memsize line whose value is no number
AtBadNumericLine ==
    /\ pc = "scan"
    /\ lineIdx <= Len(lines)
    /\ \/ lineIdx \in KeyLines(KeyNumVCPUs) /\ ~IsUint32(ValueOf(lineIdx))
       \/ lineIdx \in KeyLines(KeyMemSize) /\ ~IsInt64(ValueOf(lineIdx))

\* C6: a numvcpus or memsize line whose value fails numeric parsing changes
\* no field of the record, adds one diagnostic naming the key, and the parse
\* goes on to return a record with no error.
C6_BadNumericIgnored ==
    /\ [][AtBadNumericLine =>
            /\ config' = config
            /\ Len(log') = Len(log) + 1
            /\ log'[Len(log')].warning \in {"numvcpus", "memsize"}
            /\ log'[Len(log')].value = ValueOf(lineIdx)
            /\ pc' = "scan"]_vars
    /\ []((parsed.returned /\ fileOk) => (parsed.err = "nil" /\ parsed.config # Nil))

\* an earlier line set 4 vCPUs, a later numvcpus line did not parse, and the
\* record returned holds 4
C6_Witness ==
    /\ Parsed
    /\ \E i \in KeyLines(KeyNumVCPUs), j \in KeyLines(KeyNumVCPUs) :
          i < j /\ ValueOf(i) = <<52>> /\ ~IsUint32(ValueOf(j))
    /\ parsed.config.NumVCPUs = <<4, 0>>
    /\ log # <<>> /\ log[1].warning = "numvcpus"

\* the last element of a slash-separated path, up to its last dot
Stem(path) ==
    LET slashes == {i \in 1..Len(path) : path[i] = 47}
        start == IF slashes = {} THEN 1
                 ELSE 1 + CHOOSE i \in slashes : \A j \in slashes : j <= i
        elem == SubSeq(path, start, Len(path))
        dots == {i \in 1..Len(elem) : elem[i] = 46}
    IN  IF dots = {} THEN elem
        ELSE SubSeq(elem, 1, (CHOOSE i \in dots : \A j \in dots : j <= i) - 1)

HasFallbackWarning == \E i \in 1..Len(log) : log[i].warning = "fallback"

LastIn(S) == CHOOSE i \in S : \A j \in S : j <= i

NonEmptyNameLines == {i \in KeyLines(KeyDisplayName) : ValueOf(i) # <<>>}

\* a file without a displayName line gets the stem of its path and a
\* fallback diagnostic
FallbackWhenNoKey ==
    (Parsed /\ KeyLines(KeyDisplayName) = {})
        => /\ parsed.config.DisplayName = Stem(vmxPath)
           /\ HasFallbackWarning

\* C7 as claimed: without a displayName line the name is the stem of the path,
\* with a fallback diagnostic; with a displayName line of non-empty value,
\* the name is the value of the last such line and there is no fallback.
C7_AsClaimed ==
    /\ FallbackWhenNoKey
    /\ (Parsed /\ NonEmptyNameLines # {})
          => /\ parsed.config.DisplayName = ValueOf(LastIn(NonEmptyNameLines))
             /\ ~HasFallbackWarning

\* C7 amended: without a displayName line the name is the stem of the path,
\* with a fallback diagnostic; when the last displayName line of the file has
\* a non-empty value, the name is that value and there is no fallback.
C7_LastNameLineWins ==
    /\ FallbackWhenNoKey
    /\ (Parsed /\ KeyLines(KeyDisplayName) # {}
               /\ ValueOf(LastIn(KeyLines(KeyDisplayName))) # <<>>)
          => /\ parsed.config.DisplayName = ValueOf(LastIn(KeyLines(KeyDisplayName)))
             /\ ~HasFallbackWarning

\* two displayName lines, the first empty and the last not, have been parsed
C7_Witness ==
    /\ Parsed
    /\ Cardinality(KeyLines(KeyDisplayName)) = 2
    /\ \E i \in KeyLines(KeyDisplayName) : ValueOf(i) = <<>>
    /\ ValueOf(LastIn(KeyLines(KeyDisplayName))) # <<>>
    /\ parsed.config.DisplayName = ValueOf(LastIn(KeyLines(KeyDisplayName)))

\* C8: every record ParseVMX returns holds a parsed or default vCPU count and
\* memory size and a non-empty display name; a call returns either such a
\* record or a read error, never both.
C8_FullyPopulated ==
    parsed.returned =>
        /\ parsed.err # "nil" <=> parsed.config = Nil
        /\ parsed.err = "nil" <=> fileOk
        /\ Parsed =>
              /\ parsed.config.DisplayName # <<>>
              /\ \/ parsed.config.NumVCPUs = <<1, 0>>
                 \/ \E i \in KeyLines(KeyNumVCPUs) :
                       IsUint32(ValueOf(i)) /\ parsed.config.NumVCPUs = ParseUint(ValueOf(i), 32).val
              /\ \/ parsed.config.MemoryMiB = [neg |-> FALSE, val |-> <<1024, 0, 0, 0>>]
                 \/ \E i \in KeyLines(KeyMemSize) :
                       /\ IsInt64(ValueOf(i))
                       /\ parsed.config.MemoryMiB.val = ParseInt(ValueOf(i)).val

RECURSIVE FirstChars(_, _)
\* the first n characters of s, or all of s if it has fewer
FirstChars(s, n) ==
    IF s = <<>> \/ n = 0 THEN <<>>
    ELSE LET w == DecodeRune(s, 1).width
         IN  SubSeq(s, 1, w) \o FirstChars(SubSeq(s, w + 1, Len(s)), n - 1)

\* the resource name the spec derives from a name: lowercased, spaces and
\* underscores as hyphens, at most 63 characters
Sanitized(name) ==
    LET lower == ToLower(name)
    IN  FirstChars([i \in 1..Len(lower) |->
                       IF lower[i] \in {32, 95} THEN 45 ELSE lower[i]], 63)

\* C9: for a record ParseVMX returned, CreateKubeVirtVM fails exactly when the
\* derived name is empty; on success the name is the override if given, else
\* the display name, lowercased, with hyphens for spaces and underscores, cut
\* to at most 63 characters.
C9_BuildSucceedsWithDerivedName ==
    (Parsed /\ vm.returned) =>
        LET derived == Sanitized(IF vm.override # <<>> THEN vm.override
                                 ELSE parsed.config.DisplayName)
        IN  /\ vm.err = "nil" <=> derived # <<>>
            /\ vm.err # "nil" <=> vm.vm = Nil
            /\ vm.err = "nil" => vm.vm.Name = derived

====
